---- MODULE Spec2Model ----
(***************************************************************************)
(* Model of the rule-based categorisation engine of transaction_manager.py *)
(* (session Rule Store, Category Registry, transaction table) and of the   *)
(* user actions of show_rules_management / main that mutate them.          *)
(*                                                                         *)
(* Text is modelled as a sequence of one-character strings so that the     *)
(* substring and case-folding tests of the code are computed, not assumed. *)
(* A Python dict is modelled as a sequence of entries in insertion order   *)
(* (the iteration order of dict.items()).                                  *)
(*                                                                         *)
(* SpecFn applies the two pure functions, apply_category_rules and         *)
(* check_missing_rules, to every rule store and table within the bounds.   *)
(* Spec is a session after its data was loaded: the user actions of the    *)
(* rule management tab, from every loaded state within the bounds.         *)
(* SpecStore is download_from_s3 and upload_to_s3 in sessions that share   *)
(* one bucket, request by request.  SpecMemo is the memo editor of the     *)
(* transaction tab.  SpecAuth is the auth state machine of auth.py.        *)
(* op records the last action and the input it was given.                  *)
(***************************************************************************)
EXTENDS Integers, Sequences, FiniteSets

VARIABLES categories, category_rules, transactions_df, now, op, ret, steps,
          s3, sessions, uploads,
          session_state, env, body_ran

\* The external store, the sessions that share it, and the whole contents
\* the store was given: what it held at the start and the snapshot of every
\* call of upload_to_s3.
store_vars == <<s3, sessions, uploads>>

\* One browser session's st.session_state as auth.py uses it, the
\* deployment it runs in, and the states in which the body of main started.
auth_vars == <<session_state, env, body_ran>>

vars == <<categories, category_rules, transactions_df, now, op, ret, steps,
          store_vars, auth_vars>>

(***************************************************************************)
(* Bounds of the model.                                                    *)
(***************************************************************************)
MaxRules == 2
MaxTxns == 2
MaxCatRows == 2
MaxTime == 1
\* User actions explored after the session has loaded its data.
MaxSteps == 1

\* Descriptions and rule keys: "a", "ab", "AB".  "a" is a proper substring
\* of "ab", and of "AB" only when case is ignored; "ab" and "AB" differ
\* only in case.
Strs == { <<"a">>, <<"a", "b">>, <<"A", "B">> }

\* Category names the user can type; "" is an empty cell of the editor.
CatNames == { "Food", "Shop" }
Blank == ""

\* A legacy (plain string) rule carries no timestamp.
NoTime == -1

Range(s) == { s[i] : i \in 1..Len(s) }

(***************************************************************************)
(* Text.                                                                   *)
(***************************************************************************)
\* str.lower() / re.IGNORECASE on one character.
Lower(c) == CASE c = "A" -> "a" [] c = "B" -> "b" [] OTHER -> c

LowerStr(s) == [i \in 1..Len(s) |-> Lower(s[i])]

\* Python `k in d` on str: k occurs in d as a contiguous, case-sensitive run.
IsSubstr(k, d) ==
    \E i \in 0..(Len(d) - Len(k)) : SubSeq(d, i + 1, i + Len(k)) = k

\* Variant: the match also succeeds when the description is contained in
\* the key (the two-way test of check_missing_rules, used for the mask).
ContainsNoCaseBidirectional(d, k) ==
    IsSubstr(LowerStr(k), LowerStr(d)) \/ IsSubstr(LowerStr(d), LowerStr(k))

\* df['Description'].str.contains(re.escape(k), case=False, regex=True):
\* the escaped key is matched literally, ignoring case, anywhere in d.
ContainsNoCase(d, k) == IsSubstr(LowerStr(k), LowerStr(d))

\* str.strip() on a category name: whitespace-only names strip to "".
Strip(c) == IF c = " " THEN "" ELSE c

(***************************************************************************)
(* dict, as a sequence of entries [desc, form, category, last_modified].   *)
(* form = "dict" is the current form {category, last_modified}; form =     *)
(* "str" is the legacy form (a plain category string).                     *)
(***************************************************************************)
DictRule(d, c, t) == [desc |-> d, form |-> "dict", category |-> c, last_modified |-> t]
StrRule(d, c) == [desc |-> d, form |-> "str", category |-> c, last_modified |-> NoTime]

RuleKeys(rules) == { rules[i].desc : i \in 1..Len(rules) }

HasKey(rules, d) == \E i \in 1..Len(rules) : rules[i].desc = d

IndexOf(rules, d) == CHOOSE i \in 1..Len(rules) : rules[i].desc = d

\* rules[d]
Get(rules, d) == rules[IndexOf(rules, d)]

\* rules[e.desc] = e : an existing key keeps its position, a new one is appended.
DictSet(rules, e) ==
    IF HasKey(rules, e.desc)
    THEN [rules EXCEPT ![IndexOf(rules, e.desc)] = e]
    ELSE Append(rules, e)

\* del rules[d]
DictDel(rules, d) ==
    LET keep == { i \in 1..Len(rules) : rules[i].desc # d }
        F[i \in 0..Len(rules)] ==
            IF i = 0 THEN << >>
            ELSE IF i \in keep THEN Append(F[i - 1], rules[i]) ELSE F[i - 1]
    IN F[Len(rules)]

\* target.update(source): every item of source is set in target; keys of
\* target that source lacks stay.
DictUpdate(target, source) ==
    LET F[i \in 0..Len(source)] ==
            IF i = 0 THEN target ELSE DictSet(F[i - 1], source[i])
    IN F[Len(source)]

\* rule_info['category'] if isinstance(rule_info, dict) else rule_info
RuleCategory(e) == e.category

(***************************************************************************)
(* apply_category_rules(df, rules)                                         *)
(***************************************************************************)
\* Variant: a row that already has another category is not overwritten but
\* cleared.
SetCategoryClearConflict(row, category) ==
    IF row.Category \in {"", category}
    THEN [row EXCEPT !.Category = category]
    ELSE [row EXCEPT !.Category = ""]

\* df.loc[mask, 'Category'] = category, for one row of the mask.
SetCategory(row, category) == [row EXCEPT !.Category = category]

\* One iteration of the loop: the rule's category goes to every row whose
\* Description contains the rule's key, ignoring case.
ApplyOneRule(df, e) ==
    [i \in 1..Len(df) |->
        IF ContainsNoCase(df[i].Description, e.desc)
        THEN SetCategory(df[i], RuleCategory(e))
        ELSE df[i]]

\* Variant: the rules are applied in reverse order, so the first match wins.
apply_category_rules_first_wins(df, rules) ==
    LET F[i \in 0..Len(rules)] ==
            IF i = 0 THEN df ELSE ApplyOneRule(F[i - 1], rules[Len(rules) + 1 - i])
    IN F[Len(rules)]

\* for description, rule_info in rules.items(): ... ; return df
apply_category_rules(df, rules) ==
    LET F[i \in 0..Len(rules)] ==
            IF i = 0 THEN df ELSE ApplyOneRule(F[i - 1], rules[i])
    IN F[Len(rules)]

(***************************************************************************)
(* check_missing_rules(df, rules)                                          *)
(***************************************************************************)
\* df['Description'].unique(): the distinct descriptions, by first occurrence.
Unique(df) ==
    LET F[i \in 0..Len(df)] ==
            IF i = 0 THEN << >>
            ELSE IF df[i].Description \in Range(F[i - 1]) THEN F[i - 1]
                 ELSE Append(F[i - 1], df[i].Description)
    IN F[Len(df)]

\* Variant: only `rule_desc in desc` is tested.
rule_found_one_way(rules, desc) ==
    \E i \in 1..Len(rules) : IsSubstr(rules[i].desc, desc)

\* rule_desc in desc or desc in rule_desc, over rules.keys()
rule_found(rules, desc) ==
    \E i \in 1..Len(rules) :
        IsSubstr(rules[i].desc, desc) \/ IsSubstr(desc, rules[i].desc)

\* df[df['Description'] == desc] : the positions of the rows with this description.
RowsOf(df, desc) == { i \in 1..Len(df) : df[i].Description = desc }

FirstRowOf(df, desc) == CHOOSE i \in RowsOf(df, desc) : \A j \in RowsOf(df, desc) : i <= j

MissingEntry(df, desc) ==
    [Description |-> desc,
     Category |-> df[FirstRowOf(df, desc)].Category,
     Count |-> Cardinality(RowsOf(df, desc))]

check_missing_rules(df, rules) ==
    LET u == Unique(df)
        F[i \in 0..Len(u)] ==
            IF i = 0 THEN << >>
            ELSE IF rule_found(rules, u[i]) THEN F[i - 1]
                 ELSE Append(F[i - 1], MissingEntry(df, u[i]))
    IN F[Len(u)]

(***************************************************************************)
(* Data a session can hold after download_from_s3: any stored rule set,    *)
(* transaction table and category list, within the bounds.                 *)
(***************************************************************************)
SeqsUpTo(S, n) == UNION { [1..k -> S] : k \in 0..n }

RuleEntries ==
    { DictRule(d, c, 0) : d \in Strs, c \in CatNames \cup {Blank} }
    \cup { StrRule(d, c) : d \in Strs, c \in CatNames \cup {Blank} }

\* A JSON object has each key once.
RuleStores ==
    { r \in SeqsUpTo(RuleEntries, MaxRules) :
        \A i, j \in 1..Len(r) : i # j => r[i].desc # r[j].desc }

RowsOver(descriptions, cats) == [Description : descriptions, Category : cats, Memo : {""}]

\* The tables handed to the pure functions.
Tables == SeqsUpTo(RowsOver(Strs, {Blank, "Food"}), MaxTxns)

NoOp == [name |-> "none", input |-> << >>]

\* A specification that makes no call to the external store leaves the
\* bucket, the other sessions and the upload log out.
StoreUnused ==
    /\ s3 = << >>
    /\ sessions = << >>
    /\ uploads = << >>

\* A specification of a session that is already past the login.
AuthUnused ==
    /\ session_state = << >>
    /\ env = << >>
    /\ body_ran = {}

(***************************************************************************)
(* The pure functions, applied to any rule store and transaction table.    *)
(***************************************************************************)
InitFn ==
    /\ categories = << "Food", "Shop" >>
    /\ category_rules \in RuleStores
    /\ transactions_df \in Tables
    /\ now = 0
    /\ op = NoOp
    /\ ret = << >>
    /\ steps = 0
    /\ StoreUnused
    /\ AuthUnused

\* df = apply_category_rules(df, rules), once and then once more on the
\* result; op.input keeps the table passed in.
ApplyCategoryRules ==
    /\ op.name \in {"none", "apply"}
    /\ transactions_df' = apply_category_rules(transactions_df, category_rules)
    /\ op' = [name |-> IF op.name = "apply" THEN "apply_again" ELSE "apply",
              input |-> transactions_df]
    /\ UNCHANGED <<categories, category_rules, now, ret, steps, store_vars, auth_vars>>

\* missing_rules = check_missing_rules(df, rules)
CheckMissingRules ==
    /\ op.name = "none"
    /\ ret' = check_missing_rules(transactions_df, category_rules)
    /\ op' = [name |-> "check", input |-> << >>]
    /\ UNCHANGED <<categories, category_rules, transactions_df, now, steps, store_vars, auth_vars>>

NextFn == ApplyCategoryRules \/ CheckMissingRules

SpecFn == InitFn /\ [][NextFn]_vars

(***************************************************************************)
(* The session: show_rules_management(st.session_state.category_rules,     *)
(* on_rule_update, df) as main calls it.  `rules` is the session's own     *)
(* dict object, df the session's own table.                                *)
(***************************************************************************)
\* The default registry of a new session, cut to the names of the model.
DefaultCategories == << "Food", "Shop" >>

\* main's callback: lambda new_rules: st.session_state.category_rules.update(new_rules)
on_rule_update(session_rules, new_rules) == DictUpdate(session_rules, new_rules)

\* Boolean indexing, frame[mask]: the elements at the positions in `mask`,
\* in order.
Filter(s, mask) ==
    LET F[i \in 0..Len(s)] ==
            IF i = 0 THEN << >>
            ELSE IF i \in mask THEN Append(F[i - 1], s[i]) ELSE F[i - 1]
    IN F[Len(s)]

(************************* save category changes ***************************)
\* The rows a user can leave in the category editor: names are free text,
\* rows can be added and removed (num_rows="dynamic").
CategoryRows == [Category : CatNames \cup {Blank}, Delete : BOOLEAN]

CategoryTables == SeqsUpTo(CategoryRows, MaxCatRows)

deleted_categories(edited_categories) ==
    LET kept == Filter(edited_categories,
                       { i \in 1..Len(edited_categories) : edited_categories[i].Delete })
    IN [i \in 1..Len(kept) |-> kept[i].Category]

new_categories(edited_categories) ==
    LET unmarked == Filter(edited_categories,
                           { i \in 1..Len(edited_categories) : ~edited_categories[i].Delete })
        kept == Filter(unmarked, { i \in 1..Len(unmarked) : Strip(unmarked[i].Category) # "" })
    IN [i \in 1..Len(kept) |-> kept[i].Category]

\* for category in deleted_categories: df.loc[df['Category'] == category, 'Category'] = ''
ClearTransactions(df, deleted) ==
    [i \in 1..Len(df) |->
        IF df[i].Category \in Range(deleted) THEN [df[i] EXCEPT !.Category = ""] ELSE df[i]]

\* Variant: a rule whose category is deleted is removed from the dict.
ClearRulesDropping(rules, deleted) ==
    Filter(rules, { i \in 1..Len(rules) : RuleCategory(rules[i]) \notin Range(deleted) })

\* rules[desc]['category'] = '' (current form) or rules[desc] = '' (legacy form)
ClearRules(rules, deleted) ==
    [i \in 1..Len(rules) |->
        IF RuleCategory(rules[i]) \in Range(deleted)
        THEN [rules[i] EXCEPT !.category = ""]
        ELSE rules[i]]

SaveCategoryChanges ==
    \E edited_categories \in CategoryTables :
        LET deleted == deleted_categories(edited_categories)
            \* rules is the session's dict: the loop clears it in place.
            cleared == ClearRules(category_rules, deleted)
            rules_updated == \E i \in 1..Len(category_rules) :
                                RuleCategory(category_rules[i]) \in Range(deleted)
        IN /\ steps < MaxSteps
           /\ IF Len(deleted) > 0
              THEN /\ transactions_df' = ClearTransactions(transactions_df, deleted)
                   /\ category_rules' =
                         IF rules_updated
                         THEN on_rule_update(cleared, cleared)
                         ELSE cleared
              ELSE UNCHANGED <<transactions_df, category_rules>>
           /\ categories' = new_categories(edited_categories)
           /\ op' = [name |-> "save_categories", input |-> edited_categories,
                     rules_updated |-> Len(deleted) > 0 /\ rules_updated]
           /\ steps' = steps + 1
           /\ UNCHANGED <<now, ret, store_vars, auth_vars>>

(******************* add rules for uncovered descriptions ******************)
\* What the Category (selectbox, required) cell of a row can hold: the value
\* it showed, or one of the options.
CategoryChoices(shown) == {shown} \cup Range(categories)

\* The tables the editor can return for `rows`: Category edited per row,
\* Description and Count are read-only, the number of rows is fixed.
RECURSIVE EditedMissing(_)
EditedMissing(rows) ==
    IF rows = << >> THEN { << >> }
    ELSE { << [Head(rows) EXCEPT !.Category = c] >> \o rest :
              c \in CategoryChoices(Head(rows).Category),
              rest \in EditedMissing(Tail(rows)) }

\* First loop: a row whose category differs from that of the first
\* transaction with its description sets the category of all of them.
UpdateTransactions(df, edited) ==
    LET F[i \in 0..Len(edited)] ==
            IF i = 0 THEN df
            ELSE LET prev == F[i - 1]
                     row == edited[i]
                     original_category == prev[FirstRowOf(prev, row.Description)].Category
                 IN IF original_category # row.Category
                    THEN [k \in 1..Len(prev) |->
                            IF prev[k].Description = row.Description
                            THEN [prev[k] EXCEPT !.Category = row.Category]
                            ELSE prev[k]]
                    ELSE prev
    IN F[Len(edited)]

\* Variant: a row without a category gets no rule.
AddRulesForCategorised(rules, edited, t) ==
    LET F[i \in 0..Len(edited)] ==
            IF i = 0 THEN rules
            ELSE IF edited[i].Category = "" THEN F[i - 1]
                 ELSE DictSet(F[i - 1], DictRule(edited[i].Description, edited[i].Category, t))
    IN F[Len(edited)]

\* Second loop: new_rules[row['Description']] = {category, last_modified}
AddRulesFor(rules, edited, t) ==
    LET F[i \in 0..Len(edited)] ==
            IF i = 0 THEN rules
            ELSE DictSet(F[i - 1], DictRule(edited[i].Description, edited[i].Category, t))
    IN F[Len(edited)]

AddMissingRules ==
    LET missing_rules == check_missing_rules(transactions_df, category_rules)
    IN /\ steps < MaxSteps
       /\ Len(missing_rules) > 0
       /\ \E edited_missing_df \in EditedMissing(missing_rules) :
             /\ transactions_df' = UpdateTransactions(transactions_df, edited_missing_df)
             /\ category_rules' =
                   on_rule_update(category_rules,
                                  AddRulesFor(category_rules, edited_missing_df, now))
             /\ op' = [name |-> "add_rules", input |-> edited_missing_df]
       /\ steps' = steps + 1
    /\ UNCHANGED <<categories, now, ret, store_vars, auth_vars>>

(****************************** update rules *******************************)
\* rules_data: one row per rule; a legacy rule shows the current time.
RuleRow(e, t) ==
    [Description |-> e.desc,
     Category |-> e.category,
     LastModified |-> IF e.form = "dict" THEN e.last_modified ELSE t,
     Delete |-> FALSE]

\* sort_values('Last Modified', ascending=False): rows with equal keys keep
\* their order (the result of the batch does not depend on it, see C9).
SortDescending(rows) ==
    LET Insert(sorted, r) ==
            LET before == { k \in 1..Len(sorted) : sorted[k].LastModified >= r.LastModified }
                n == Cardinality(before)
            IN SubSeq(sorted, 1, n) \o << r >> \o SubSeq(sorted, n + 1, Len(sorted))
        F[i \in 0..Len(rows)] ==
            IF i = 0 THEN << >> ELSE Insert(F[i - 1], rows[i])
    IN F[Len(rows)]

rules_df(rules, t) == SortDescending([i \in 1..Len(rules) |-> RuleRow(rules[i], t)])

\* The search box (empty: no filter) and the category multiselect ("ALL"
\* stands for the option that shows every category).
SearchTerms == { << >> } \cup Strs

Selections == { {"ALL"} } \cup (SUBSET Range(categories))

Displayed(rows, search_term, selected_categories) ==
    LET found == IF search_term = << >> THEN rows
                 ELSE Filter(rows, { i \in 1..Len(rows) :
                                      ContainsNoCase(rows[i].Description, search_term) })
    IN IF "ALL" \in selected_categories THEN found
       ELSE Filter(found, { i \in 1..Len(found) : found[i].Category \in selected_categories })

\* The tables the rule editor can return: only Category and Delete are
\* editable, the number of rows is fixed.
RECURSIVE EditedRules(_)
EditedRules(rows) ==
    IF rows = << >> THEN { << >> }
    ELSE { << [Head(rows) EXCEPT !.Category = c, !.Delete = del] >> \o rest :
              c \in CategoryChoices(Head(rows).Category),
              del \in BOOLEAN,
              rest \in EditedRules(Tail(rows)) }

\* Every table the two filters can leave on the screen.
Displayable(rows) ==
    { Displayed(rows, search_term, selected_categories) :
        search_term \in SearchTerms, selected_categories \in Selections }

\* Variant: a row that is not deleted always writes a freshly stamped entry.
EditOneAlwaysStamp(new_rules, row, t) ==
    IF row.Delete
    THEN IF HasKey(new_rules, row.Description) THEN DictDel(new_rules, row.Description)
         ELSE new_rules
    ELSE DictSet(new_rules, DictRule(row.Description, row.Category, t))

\* Variant: a changed rule is removed and inserted again, which moves its
\* key to the end of the dict.
EditOneMoveToEnd(new_rules, row, t) ==
    IF row.Delete
    THEN IF HasKey(new_rules, row.Description) THEN DictDel(new_rules, row.Description)
         ELSE new_rules
    ELSE IF HasKey(new_rules, row.Description)
         THEN IF row.Category # RuleCategory(Get(new_rules, row.Description))
              THEN Append(DictDel(new_rules, row.Description),
                          DictRule(row.Description, row.Category, t))
              ELSE new_rules
         ELSE DictSet(new_rules, DictRule(row.Description, row.Category, t))

\* The body of the loop over the edited rows.
EditOne(new_rules, row, t) ==
    IF row.Delete
    THEN IF HasKey(new_rules, row.Description) THEN DictDel(new_rules, row.Description)
         ELSE new_rules
    ELSE IF HasKey(new_rules, row.Description)
         THEN IF row.Category # RuleCategory(Get(new_rules, row.Description))
              THEN DictSet(new_rules, DictRule(row.Description, row.Category, t))
              ELSE new_rules
         ELSE DictSet(new_rules, DictRule(row.Description, row.Category, t))

\* new_rules = rules.copy(), then the loop over edited_rules.iterrows()
ApplyEdits(rules, edited_rules, t) ==
    LET F[i \in 0..Len(edited_rules)] ==
            IF i = 0 THEN rules ELSE EditOne(F[i - 1], edited_rules[i], t)
    IN F[Len(edited_rules)]

\* The whole handler: <<session rule store, session table>> afterwards.
UpdateRulesResult(rules, df, edited_rules, t) ==
    LET new_rules == ApplyEdits(rules, edited_rules, t)
    IN << on_rule_update(rules, new_rules), apply_category_rules(df, new_rules) >>

\* With no rule at all the rule table cannot be built (sort_values on a
\* frame without columns raises), so the button is never reached.
UpdateRules ==
    /\ steps < MaxSteps
    /\ Len(category_rules) > 0
    /\ \E shown \in Displayable(rules_df(category_rules, now)) :
          \E edited_rules \in EditedRules(shown) :
             LET res == UpdateRulesResult(category_rules, transactions_df, edited_rules, now)
             IN /\ category_rules' = res[1]
                /\ transactions_df' = res[2]
                /\ op' = [name |-> "update_rules", input |-> edited_rules]
    /\ steps' = steps + 1
    /\ UNCHANGED <<categories, now, ret, store_vars, auth_vars>>

\* The wall clock read by datetime.now() moves on before an action.
Tick ==
    /\ steps < MaxSteps
    /\ now < MaxTime
    /\ now' = now + 1
    /\ UNCHANGED <<categories, category_rules, transactions_df, op, ret, steps, store_vars, auth_vars>>

\* What download_from_s3 can have put in the session when main goes on.
\* "ab" and "AB": each contains the other ignoring case, neither does
\* case-sensitively.
SessionStrs == { <<"a", "b">>, <<"A", "B">> }

SessionRuleStores == { r \in RuleStores : RuleKeys(r) \subseteq SessionStrs }

SessionTables == SeqsUpTo(RowsOver(SessionStrs, CatNames \cup {Blank}), MaxTxns)

\* categories.json: the default list, or what is left of it after deletions.
Registries == { << >>, << "Food" >>, << "Shop" >>, DefaultCategories }

Init ==
    /\ categories \in Registries
    /\ category_rules \in SessionRuleStores
    /\ transactions_df \in SessionTables
    /\ now = 0
    /\ op = NoOp
    /\ ret = << >>
    /\ steps = 0
    /\ StoreUnused
    /\ AuthUnused

Next == SaveCategoryChanges \/ AddMissingRules \/ UpdateRules \/ Tick

Spec == Init /\ [][Next]_vars

(***************************************************************************)
(* The external store: download_from_s3 and upload_to_s3, called by        *)
(* sessions that share one bucket.  Every get_object and put_object is a   *)
(* request of its own, so the calls of two sessions interleave request by  *)
(* request, and every request and every parse can fail.                    *)
(***************************************************************************)
Sessions == { "s1", "s2" }

\* Calls of download_from_s3 and upload_to_s3 and category saves explored,
\* over all sessions.
MaxCalls == 5

\* st.session_state.transactions_df is None until a table is assigned.
None == << >>
Some(df) == << df >>

\* A missing value in a frame read by pd.read_csv.
NaN == "nan"

\* DataFrame.to_csv(index=False): one line per row; an empty string and a
\* missing value are both written as an empty cell.
to_csv(df) ==
    [i \in 1..Len(df) |->
        [Description |-> df[i].Description,
         Category |-> IF df[i].Category = NaN THEN "" ELSE df[i].Category,
         Memo |-> IF df[i].Memo = NaN THEN "" ELSE df[i].Memo]]

\* pd.read_csv, then Memo.fillna('').astype(str): an empty cell is read as
\* a missing value, which only the Memo column replaces by ''.
read_csv(csv) ==
    [i \in 1..Len(csv) |->
        [Description |-> csv[i].Description,
         Category |-> IF csv[i].Category = "" THEN NaN ELSE csv[i].Category,
         Memo |-> csv[i].Memo]]

\* json.dumps of the category list: a JSON array of strings.
dumps_categories(cats) ==
    [type |-> "array", items |-> [i \in 1..Len(cats) |-> [type |-> "string", s |-> cats[i]]]]

\* json.loads of categories.json
loads_categories(doc) == [i \in 1..Len(doc.items) |-> doc.items[i].s]

\* json.dumps of the rule dict: a JSON object whose members are a string
\* (legacy rule) or an object {category, last_modified}.
dumps_rules(rules) ==
    [type |-> "object",
     members |-> [i \in 1..Len(rules) |->
        IF rules[i].form = "dict"
        THEN [key |-> rules[i].desc, type |-> "object",
              category |-> rules[i].category, last_modified |-> rules[i].last_modified]
        ELSE [key |-> rules[i].desc, type |-> "string",
              category |-> rules[i].category, last_modified |-> NoTime]]]

\* json.loads of category_rules.json: a string member stays a str, an
\* object member becomes a dict; nothing is converted.
loads_rules(doc) ==
    [i \in 1..Len(doc.members) |->
        IF doc.members[i].type = "object"
        THEN DictRule(doc.members[i].key, doc.members[i].category, doc.members[i].last_modified)
        ELSE StrRule(doc.members[i].key, doc.members[i].category)]

\* The three objects of the bucket.
Bucket(csv, cats, rules) ==
    [all_transactions |-> csv, categories |-> cats, category_rules |-> rules]

\* What the bucket can hold when the sessions start: one transaction "ab",
\* categorised or not, the default categories, and a legacy rule or a
\* current-form rule for it.
StoredTables ==
    { << [Description |-> <<"a", "b">>, Category |-> c, Memo |-> ""] >> : c \in {"Food", ""} }

StoredRules ==
    { << StrRule(<<"a", "b">>, "Food") >>, << DictRule(<<"a", "b">>, "Food", 0) >> }

Buckets ==
    { Bucket(to_csv(t), dumps_categories(DefaultCategories), dumps_rules(r)) :
        t \in StoredTables, r \in StoredRules }

\* The three session values the store calls read and write.
Memory(ss) ==
    [transactions_df |-> ss.transactions_df,
     categories |-> ss.categories,
     category_rules |-> ss.category_rules]

\* A session before its first run of main; pc is the request the session's
\* script is about to send ("idle": no call in progress), last the call
\* that returned last.
NoCall == [name |-> "none", returned |-> FALSE, before |-> << >>]

NewSession ==
    [transactions_df |-> None,
     categories |-> DefaultCategories,
     category_rules |-> << >>,
     pc |-> "idle",
     last |-> NoCall]

InitStore ==
    /\ s3 \in Buckets
    /\ sessions = [s \in Sessions |-> NewSession]
    /\ uploads = { s3 }
    /\ categories = << >>
    /\ category_rules = << >>
    /\ transactions_df = << >>
    /\ now = 0
    /\ op = NoOp
    /\ ret = << >>
    /\ steps = 0
    /\ AuthUnused

Returns(ss, call, value) ==
    [ss EXCEPT !.pc = "idle",
               !.last = [name |-> call, returned |-> value, before |-> ss.last.before]]

\* What a request or a parse can do.
Outcomes == { "ok", "request_fails", "parse_fails" }

\* download_from_s3, to the end of the first block: get_object of
\* all_transactions.csv, read_csv assigned to the session, then to_datetime
\* and the Memo column.  A failure of get_object or read_csv leaves the
\* session as it was; a failure of to_datetime comes after the assignment.
\* main calls it while transactions_df is None and on the first button.
DownloadTransactions(s) ==
    /\ sessions[s].pc = "idle"
    /\ steps < MaxCalls
    /\ steps' = steps + 1
    /\ \E outcome \in Outcomes \cup { "to_datetime_fails" } :
          LET started == [sessions[s] EXCEPT !.last.before = Memory(sessions[s])]
              assigned == [started EXCEPT !.transactions_df =
                                               Some(read_csv(s3.all_transactions))]
          IN sessions' = [sessions EXCEPT ![s] =
                CASE outcome = "ok" -> [assigned EXCEPT !.pc = "get_categories"]
                  [] outcome = "to_datetime_fails" -> Returns(assigned, "download", FALSE)
                  [] OTHER -> Returns(started, "download", FALSE)]
    /\ UNCHANGED <<s3, uploads>>
    /\ UNCHANGED <<categories, category_rules, transactions_df, now, op, ret, auth_vars>>

\* The second block: categories.json
DownloadCategories(s) ==
    /\ sessions[s].pc = "get_categories"
    /\ \E outcome \in Outcomes :
          sessions' = [sessions EXCEPT ![s] =
             IF outcome = "ok"
             THEN [sessions[s] EXCEPT !.categories = loads_categories(s3.categories),
                                      !.pc = "get_rules"]
             ELSE Returns(sessions[s], "download", FALSE)]
    /\ UNCHANGED <<s3, uploads>>
    /\ UNCHANGED <<categories, category_rules, transactions_df, now, op, ret, steps, auth_vars>>

\* The third block: category_rules.json, and return True.
DownloadRules(s) ==
    /\ sessions[s].pc = "get_rules"
    /\ \E outcome \in Outcomes :
          sessions' = [sessions EXCEPT ![s] =
             IF outcome = "ok"
             THEN Returns([sessions[s] EXCEPT !.category_rules = loads_rules(s3.category_rules)],
                          "download", TRUE)
             ELSE Returns(sessions[s], "download", FALSE)]
    /\ UNCHANGED <<s3, uploads>>
    /\ UNCHANGED <<categories, category_rules, transactions_df, now, op, ret, steps, auth_vars>>

\* What one call of upload_to_s3 writes when all of it succeeds.
Snapshot(ss) ==
    Bucket(to_csv(ss.transactions_df[1]),
           dumps_categories(ss.categories),
           dumps_rules(ss.category_rules))

\* upload_to_s3, first block: to_csv and put_object of all_transactions.csv.
\* The button is below main's early return, so the session has a table.
UploadTransactions(s) ==
    /\ sessions[s].pc = "idle"
    /\ sessions[s].transactions_df # None
    /\ steps < MaxCalls
    /\ steps' = steps + 1
    /\ uploads' = uploads \cup { Snapshot(sessions[s]) }
    /\ \E outcome \in { "ok", "request_fails" } :
          LET started == [sessions[s] EXCEPT !.last.before = << >>]
          IN IF outcome = "ok"
             THEN /\ s3' = [s3 EXCEPT !.all_transactions = to_csv(sessions[s].transactions_df[1])]
                  /\ sessions' = [sessions EXCEPT ![s] = [started EXCEPT !.pc = "put_categories"]]
             ELSE /\ s3' = s3
                  /\ sessions' = [sessions EXCEPT ![s] = Returns(started, "upload", FALSE)]
    /\ UNCHANGED <<categories, category_rules, transactions_df, now, op, ret, auth_vars>>

\* Second block: categories.json
UploadCategories(s) ==
    /\ sessions[s].pc = "put_categories"
    /\ \E outcome \in { "ok", "request_fails" } :
          IF outcome = "ok"
          THEN /\ s3' = [s3 EXCEPT !.categories = dumps_categories(sessions[s].categories)]
               /\ sessions' = [sessions EXCEPT ![s].pc = "put_rules"]
          ELSE /\ s3' = s3
               /\ sessions' = [sessions EXCEPT ![s] = Returns(sessions[s], "upload", FALSE)]
    /\ UNCHANGED uploads
    /\ UNCHANGED <<categories, category_rules, transactions_df, now, op, ret, steps, auth_vars>>

\* Third block: category_rules.json, and return True.
UploadRules(s) ==
    /\ sessions[s].pc = "put_rules"
    /\ \E outcome \in { "ok", "request_fails" } :
          IF outcome = "ok"
          THEN /\ s3' = [s3 EXCEPT !.category_rules = dumps_rules(sessions[s].category_rules)]
               /\ sessions' = [sessions EXCEPT ![s] = Returns(sessions[s], "upload", TRUE)]
          ELSE /\ s3' = s3
               /\ sessions' = [sessions EXCEPT ![s] = Returns(sessions[s], "upload", FALSE)]
    /\ UNCHANGED uploads
    /\ UNCHANGED <<categories, category_rules, transactions_df, now, op, ret, steps, auth_vars>>

\* 'save category changes' in session s, on the table the editor shows for
\* the session's registry with any of its rows marked Delete.
DeleteCategories(s) ==
    /\ sessions[s].pc = "idle"
    /\ steps < MaxCalls
    /\ steps' = steps + 1
    /\ sessions[s].transactions_df # None
    /\ \E marked \in SUBSET (1..Len(sessions[s].categories)) :
          LET ss == sessions[s]
              edited_categories ==
                  [i \in 1..Len(ss.categories) |->
                      [Category |-> ss.categories[i], Delete |-> i \in marked]]
              deleted == deleted_categories(edited_categories)
          IN /\ marked # {}
             /\ sessions' = [sessions EXCEPT ![s] =
                   [ss EXCEPT !.transactions_df =
                                  Some(ClearTransactions(ss.transactions_df[1], deleted)),
                              !.category_rules = ClearRules(ss.category_rules, deleted),
                              !.categories = new_categories(edited_categories),
                              !.last = [name |-> "save_categories", returned |-> TRUE,
                                        before |-> << >>]]]
    /\ UNCHANGED <<s3, uploads>>
    /\ UNCHANGED <<categories, category_rules, transactions_df, now, op, ret, auth_vars>>

NextStore ==
    \E s \in Sessions :
        \/ DownloadTransactions(s)
        \/ DownloadCategories(s)
        \/ DownloadRules(s)
        \/ UploadTransactions(s)
        \/ UploadCategories(s)
        \/ UploadRules(s)
        \/ DeleteCategories(s)

SpecStore == InitStore /\ [][NextStore]_vars

(***************************************************************************)
(* The transaction tab of main: the filters, the editor in which only Memo *)
(* can be edited, and the 'save changes' button.                           *)
(***************************************************************************)
\* Memo texts in the loaded table, and texts the user can type into a cell.
Memos == { "", "m" }

MemoTexts == Memos \cup { "x" }

MemoRows == [Description : { <<"a">>, <<"a", "b">> }, Category : CatNames, Memo : Memos]

MemoTables == SeqsUpTo(MemoRows, MaxTxns)

\* filtered_df before reset_index: the index labels (row positions of df)
\* that pass the search box and the category multiselect, in order.  The
\* other filters select on columns the model leaves out.
FilteredIndex(df, search_term, selected_categories) ==
    Filter([i \in 1..Len(df) |-> i],
           { i \in 1..Len(df) :
               /\ search_term # << >> => ContainsNoCase(df[i].Description, search_term)
               /\ "ALL" \notin selected_categories => df[i].Category \in selected_categories })

\* filtered_df.reset_index(drop=True): the rows at these labels, relabelled
\* from the first position on.
ResetIndex(df, labels) == [k \in 1..Len(labels) |-> df[labels[k]]]

\* Every list of labels the filters can leave on the screen.
FilteredIndexes(df) ==
    { FilteredIndex(df, search_term, selected_categories) :
        search_term \in SearchTerms, selected_categories \in Selections }

\* The tables the editor can return: only Memo is editable, num_rows="fixed".
RECURSIVE EditedMemos(_)
EditedMemos(rows) ==
    IF rows = << >> THEN { << >> }
    ELSE { << [Head(rows) EXCEPT !.Memo = m] >> \o rest :
              m \in MemoTexts, rest \in EditedMemos(Tail(rows)) }

\* edited_df[edited_df['Memo'] != df.loc[edited_df.index, 'Memo']]: row k of
\* the editor is compared with the row of df that has the label k.
changed_rows(df, edited_df) ==
    { k \in 1..Len(edited_df) : edited_df[k].Memo # df[k].Memo }

\* for idx in changed_rows.index: df.loc[idx, 'Memo'] = changed_rows.loc[idx, 'Memo']
SaveMemoResult(df, edited_df) ==
    [i \in 1..Len(df) |->
        IF i \in changed_rows(df, edited_df)
        THEN [df[i] EXCEPT !.Memo = edited_df[i].Memo]
        ELSE df[i]]

\* The 'save changes' button; op keeps the labels of the displayed rows and
\* the table the editor returned.
SaveMemo ==
    /\ steps < MaxSteps
    /\ \E labels \in FilteredIndexes(transactions_df) :
          \E edited_df \in EditedMemos(ResetIndex(transactions_df, labels)) :
             /\ transactions_df' = SaveMemoResult(transactions_df, edited_df)
             /\ op' = [name |-> "save_memo", input |-> edited_df, labels |-> labels]
    /\ steps' = steps + 1
    /\ UNCHANGED <<categories, category_rules, now, ret, store_vars, auth_vars>>

InitMemo ==
    /\ categories = DefaultCategories
    /\ category_rules = << >>
    /\ transactions_df \in MemoTables
    /\ now = 0
    /\ op = NoOp
    /\ ret = << >>
    /\ steps = 0
    /\ StoreUnused
    /\ AuthUnused

NextMemo == SaveMemo

SpecMemo == InitMemo /\ [][NextMemo]_vars

(***************************************************************************)
(* auth.py: the session auth state machine.  One action is one run of the  *)
(* script, `if init_auth(): main()`, on the session's st.session_state; a  *)
(* run ends early when an exception leaves it or st.rerun() is called, and *)
(* what it has assigned so far stays in the session.                       *)
(***************************************************************************)
\* Google accounts; the deployment's allowed_emails list is empty or names
\* the first.
Emails == { "alice", "mallory" }

AllowedLists == { << >>, << "alice" >> }

\* ALLOWED_EMAILS = set(st.secrets["google_oauth"]["allowed_emails"])
ALLOWED_EMAILS == Range(env.allowed_emails)

\* None, as a credentials object and as an email (both are falsy).
NoCreds == "none"
NoEmail == ""

\* A Credentials object: valid, expired with a refresh token, or neither.
CredStates == { "valid", "expired", "stale" }

\* key in st.session_state, and st.session_state[key] = value
Has(ss, key) == key \in DOMAIN ss

Put(ss, key, value) == [k \in DOMAIN ss \cup { key } |-> IF k = key THEN value ELSE ss[k]]

\* What the browser sends with a run and what Google answers during it:
\* the cookie query parameter as load_auth_from_cookie decodes it (creds
\* and email, any values the sender likes), an authorization code that
\* fetch_token accepts, the outcome of creds.refresh, the email of the
\* userinfo response (none: the request fails), and whether st.rerun()
\* inside the try block of _load_credentials ends the run or is caught.
Requests ==
    [cookie_creds : { NoCreds } \cup CredStates,
     cookie_email : { NoEmail } \cup Emails,
     code : BOOLEAN,
     refresh_ok : BOOLEAN,
     userinfo : { NoEmail } \cup Emails,
     rerun_caught : BOOLEAN]

\* GoogleAuthManager(): __init__ and _load_credentials.  stop: the run
\* ended in st.rerun().
_load_credentials(ss, req) ==
    LET held == IF Has(ss, "oauth_credentials") THEN ss["oauth_credentials"] ELSE NoCreds
        refreshed == held = "expired" /\ req.refresh_ok
        \* creds.refresh() renews the object the session holds
        ss1 == IF refreshed THEN Put(ss, "oauth_credentials", "valid") ELSE ss
        creds == CASE held = "valid" -> "valid"
                   [] held = "expired" -> IF req.refresh_ok THEN "valid" ELSE NoCreds
                   [] OTHER -> held
    IN IF held = "valid" THEN [ss |-> ss, creds |-> "valid", stop |-> FALSE]
       ELSE IF creds = NoCreds
            THEN IF req.code
                 THEN [ss |-> Put(ss1, "oauth_credentials", "valid"),
                       creds |-> "valid", stop |-> ~req.rerun_caught]
                 ELSE [ss |-> ss1, creds |-> NoCreds, stop |-> FALSE]
            ELSE [ss |-> Put(ss1, "oauth_credentials", creds), creds |-> creds, stop |-> FALSE]

\* GoogleAuthManager.get_user_email
get_user_email(ss, creds, req) ==
    IF creds = NoCreds THEN [ss |-> ss, email |-> NoEmail]
    ELSE IF Has(ss, "user_email") THEN [ss |-> ss, email |-> ss["user_email"]]
    ELSE IF req.userinfo # NoEmail
         THEN [ss |-> Put(ss, "user_email", req.userinfo), email |-> req.userinfo]
         ELSE [ss |-> ss, email |-> NoEmail]

\* st.session_state.authenticated = True; st.session_state.user_email = email
Authenticate(ss, email) == Put(Put(ss, "authenticated", TRUE), "user_email", email)

\* The second half of show_login_page: a new manager, and its email.
LoginWithGoogle(ss, req) ==
    LET m == _load_credentials(ss, req)
        g == get_user_email(m.ss, m.creds, req)
    IN IF m.stop THEN m.ss
       ELSE IF g.email # NoEmail /\ g.email \in ALLOWED_EMAILS
            THEN Authenticate(g.ss, g.email)
            ELSE g.ss

\* show_login_page: the session it leaves; the run ends after it.
show_login_page(ss, req) ==
    IF env.local THEN ss
    ELSE IF Has(ss, "oauth_credentials") /\ Has(ss, "user_email")
         THEN LET m == _load_credentials(ss, req)
                  g == get_user_email(m.ss, m.creds, req)
              IN IF m.stop THEN m.ss
                 ELSE IF g.email # NoEmail /\ g.email \in ALLOWED_EMAILS
                      THEN Authenticate(g.ss, g.email)
                      ELSE LoginWithGoogle(g.ss, req)
         ELSE LoginWithGoogle(ss, req)

\* init_auth in a local environment, not yet authenticated: the flag is
\* assigned, then allowed_emails[0] is read, which raises on an empty list.
LocalAutoLogin(ss) ==
    LET flagged == Put(ss, "authenticated", TRUE)
    IN IF env.allowed_emails = << >>
       THEN [ss |-> flagged, value |-> FALSE, stop |-> TRUE]
       ELSE [ss |-> Put(flagged, "user_email", env.allowed_emails[1]),
             value |-> TRUE, stop |-> FALSE]

\* init_auth: the session it leaves, its return value, and stop when the
\* run ended inside it.
init_auth(ss, req) ==
    LET ss0 == IF Has(ss, "authenticated") THEN ss ELSE Put(ss, "authenticated", FALSE)
    IN IF env.local
       THEN IF ~ss0["authenticated"] THEN LocalAutoLogin(ss0)
            ELSE [ss |-> ss0, value |-> TRUE, stop |-> FALSE]
       ELSE IF ss0["authenticated"] THEN [ss |-> ss0, value |-> TRUE, stop |-> FALSE]
       ELSE IF /\ req.cookie_creds # NoCreds
               /\ req.cookie_email # NoEmail
               /\ req.cookie_email \in ALLOWED_EMAILS
            THEN [ss |-> Authenticate(Put(ss0, "oauth_credentials", req.cookie_creds),
                                      req.cookie_email),
                  value |-> TRUE, stop |-> FALSE]
       ELSE IF Has(ss0, "oauth_credentials")
            THEN LET m == _load_credentials(ss0, req)
                     g == get_user_email(m.ss, m.creds, req)
                 IN IF m.stop THEN [ss |-> m.ss, value |-> FALSE, stop |-> TRUE]
                    ELSE IF g.email # NoEmail /\ g.email \in ALLOWED_EMAILS
                         THEN [ss |-> Authenticate(g.ss, g.email),
                               value |-> TRUE, stop |-> FALSE]
                         ELSE [ss |-> show_login_page(g.ss, req),
                               value |-> FALSE, stop |-> FALSE]
       ELSE [ss |-> show_login_page(ss0, req), value |-> FALSE, stop |-> FALSE]

\* login_required's wrapper around main: the session it leaves, and
\* whether func, the body of main, was called (in that session).
wrapper(ss, req) ==
    IF ~(Has(ss, "authenticated") /\ ss["authenticated"])
    THEN IF Has(ss, "oauth_credentials") /\ Has(ss, "user_email")
         THEN LET m == _load_credentials(ss, req)
              IN IF m.stop THEN [ss |-> m.ss, body |-> FALSE]
                 ELSE IF m.ss["user_email"] \in ALLOWED_EMAILS
                      THEN [ss |-> Put(m.ss, "authenticated", TRUE), body |-> TRUE]
                      ELSE [ss |-> show_login_page(m.ss, req), body |-> FALSE]
         ELSE [ss |-> show_login_page(ss, req), body |-> FALSE]
    ELSE [ss |-> ss, body |-> TRUE]

\* One run of the script: if init_auth(): main().  op keeps the request.
ScriptRun ==
    /\ \E req \in Requests :
          LET i == init_auth(session_state, req)
              w == wrapper(i.ss, req)
          IN /\ IF i.stop \/ ~i.value
                THEN /\ session_state' = i.ss
                     /\ body_ran' = body_ran
                ELSE /\ session_state' = w.ss
                     /\ body_ran' = IF w.body THEN body_ran \cup { w.ss } ELSE body_ran
             /\ op' = [name |-> "run", input |-> req]
    /\ UNCHANGED env
    /\ UNCHANGED <<categories, category_rules, transactions_df, now, ret, steps, store_vars>>

\* Between two runs the access token of the credentials the session holds
\* runs out (creds.valid becomes false, creds.expired true).
TokenExpires ==
    /\ Has(session_state, "oauth_credentials")
    /\ session_state["oauth_credentials"] = "valid"
    /\ session_state' = Put(session_state, "oauth_credentials", "expired")
    /\ UNCHANGED <<env, body_ran>>
    /\ UNCHANGED <<categories, category_rules, transactions_df, now, op, ret, steps, store_vars>>

\* A new browser session, in a local or a deployed environment.
InitAuth ==
    /\ session_state = << >>
    /\ env \in [local : BOOLEAN, allowed_emails : AllowedLists]
    /\ body_ran = {}
    /\ categories = << >>
    /\ category_rules = << >>
    /\ transactions_df = << >>
    /\ now = 0
    /\ op = NoOp
    /\ ret = << >>
    /\ steps = 0
    /\ StoreUnused

NextAuth == ScriptRun \/ TokenExpires

SpecAuth == InitAuth /\ [][NextAuth]_vars

(***************************************************************************)
(* Vocabulary of the properties, stated apart from the operators above.    *)
(***************************************************************************)
\* k occurs in d as a contiguous run, compared character by character.
OccursAt(k, d, o, fold) ==
    /\ o + Len(k) <= Len(d)
    /\ \A p \in 1..Len(k) :
          IF fold THEN Lower(d[o + p]) = Lower(k[p]) ELSE d[o + p] = k[p]

CaseInsensitiveSubstring(k, d) == \E o \in 0..Len(d) : OccursAt(k, d, o, TRUE)

CaseSensitiveSubstring(k, d) == \E o \in 0..Len(d) : OccursAt(k, d, o, FALSE)

\* The positions in the rule store of the rules whose key matches d.
Matching(rules, d) ==
    { j \in 1..Len(rules) : CaseInsensitiveSubstring(rules[j].desc, d) }

MaxOf(S) == CHOOSE m \in S : \A x \in S : x <= m

\* The categories marked for deletion in a category editor table; an empty
\* cell names no category.
MarkedForDeletion(table) ==
    { table[i].Category : i \in { k \in 1..Len(table) : table[k].Delete } } \ { Blank }

\* Every rule and every transaction refers to the registry or to nothing.
ReferencesInRegistry ==
    /\ \A i \in 1..Len(category_rules) :
          category_rules[i].category \in { "" } \cup Range(categories)
    /\ \A i \in 1..Len(transactions_df) :
          transactions_df[i].Category \in { "" } \cup Range(categories)

\* A user action (not a clock tick) has just run.
UserStep == steps' = steps + 1

BatchOrders(s) ==
    { [i \in 1..Len(s) |-> s[f[i]]] :
        f \in { g \in [1..Len(s) -> 1..Len(s)] :
                  \A a, b \in 1..Len(s) : a # b => g[a] # g[b] } }

(***************************************************************************)
(* C1: after 'save category changes' with categories marked for deletion,  *)
(* no rule and no transaction has a deleted category, and no deleted       *)
(* category is in the registry.                                            *)
(***************************************************************************)
C1_DeletedCategoryGone ==
    op.name = "save_categories" =>
        \A C \in MarkedForDeletion(op.input) :
            /\ \A i \in 1..Len(category_rules) : category_rules[i].category # C
            /\ \A i \in 1..Len(transactions_df) : transactions_df[i].Category # C
            /\ C \notin Range(categories)

(***************************************************************************)
(* C2: no user action takes a state in which every rule's and every        *)
(* transaction's category is empty or in the registry to a state in which  *)
(* one is not.                                                             *)
(***************************************************************************)
C2_RegistryInvariantKept ==
    [][ReferencesInRegistry => ReferencesInRegistry']_vars

(***************************************************************************)
(* C3: after 'update rules', no description marked delete in the batch is  *)
(* a key of the session rule store.                                        *)
(***************************************************************************)
C3_DeletedRuleAbsent ==
    op.name = "update_rules" =>
        \A i \in 1..Len(op.input) :
            op.input[i].Delete =>
                \A j \in 1..Len(category_rules) :
                    category_rules[j].desc # op.input[i].Description

C5_ConsistentAfterRuleMutation ==
    [][(UserStep /\ category_rules' # category_rules) =>
          apply_category_rules(transactions_df', category_rules') = transactions_df']_vars

(***************************************************************************)
(* C9: the session rule store and the transaction table after 'update      *)
(* rules' are the same for every order of the rows of the batch (one       *)
(* value of 'now' for the batch; descriptions occur once in a batch).      *)
(***************************************************************************)
C9_BatchOrderIndependent ==
    [][(op'.name = "update_rules" /\ UserStep) =>
          \A p \in BatchOrders(op'.input) :
              UpdateRulesResult(category_rules, transactions_df, p, now)
                 = << category_rules', transactions_df' >>]_vars

\* A batch of two rows ran: one deleted a rule, the other changed the
\* category of a rule, which was stamped with the time of the update.
C9_Witness ==
    /\ op.name = "update_rules"
    /\ now > 0
    /\ \E i, k \in 1..Len(op.input) :
          /\ op.input[i].Delete
          /\ ~op.input[k].Delete
          /\ \E j \in 1..Len(category_rules) :
                /\ category_rules[j].desc = op.input[k].Description
                /\ category_rules[j].category = op.input[k].Category
                /\ category_rules[j].last_modified = now

(***************************************************************************)
(* C6: after apply_category_rules, every transaction whose description     *)
(* contains some rule key as a case-insensitive substring has the category *)
(* of the matching rule that comes last in the rule store's iteration      *)
(* order.                                                                  *)
(***************************************************************************)
C6_LastMatchWins ==
    op.name = "apply" =>
        \A i \in 1..Len(op.input) :
            LET M == Matching(category_rules, op.input[i].Description)
            IN M # {} =>
                 transactions_df[i].Category = category_rules[MaxOf(M)].category

\* A shorter key applied after a longer one decides the category, and the
\* category of the row has changed.
C6_Witness ==
    /\ op.name = "apply"
    /\ \E i \in 1..Len(op.input) :
          LET M == Matching(category_rules, op.input[i].Description)
          IN /\ Cardinality(M) >= 2
             /\ \E j \in M : /\ j < MaxOf(M)
                             /\ Len(category_rules[j].desc) > Len(category_rules[MaxOf(M)].desc)
                             /\ category_rules[j].category # category_rules[MaxOf(M)].category
             /\ transactions_df[i].Category # op.input[i].Category

(***************************************************************************)
(* C7: apply_category_rules leaves the category of every transaction whose *)
(* description contains no rule key (ignoring case) as it was, also when   *)
(* the description is a proper substring of a key; it changes no other     *)
(* field of any transaction, nor the number of rows, nor the rule store.   *)
(***************************************************************************)
C7_ApplyFrame ==
    [][op'.name = "apply" =>
        /\ category_rules' = category_rules
        /\ Len(transactions_df') = Len(transactions_df)
        /\ \A i \in 1..Len(transactions_df) :
              /\ transactions_df'[i].Description = transactions_df[i].Description
              /\ transactions_df'[i].Memo = transactions_df[i].Memo
              /\ Matching(category_rules, transactions_df[i].Description) = {}
                    => transactions_df'[i].Category = transactions_df[i].Category]_vars

\* A row whose description is a proper substring of a key with another
\* category, and matches no key, kept its category.
C7_Witness ==
    /\ op.name = "apply"
    /\ \E i \in 1..Len(op.input) :
          /\ Matching(category_rules, op.input[i].Description) = {}
          /\ \E j \in 1..Len(category_rules) :
                /\ CaseSensitiveSubstring(op.input[i].Description, category_rules[j].desc)
                /\ category_rules[j].desc # op.input[i].Description
                /\ category_rules[j].category # op.input[i].Category
          /\ transactions_df[i].Category = op.input[i].Category

(***************************************************************************)
(* C8: bulk categorisation is idempotent: applying the same rule store to  *)
(* the result of apply_category_rules changes no transaction's category.   *)
(***************************************************************************)
C8_Idempotent ==
    op.name = "apply_again" =>
        \A i \in 1..Len(op.input) : transactions_df[i].Category = op.input[i].Category

\* The second application ran on a table in which a row matches two rules
\* of different categories.
C8_Witness ==
    /\ op.name = "apply_again"
    /\ \E i \in 1..Len(op.input) :
          \E j, k \in Matching(category_rules, op.input[i].Description) :
              /\ category_rules[j].category # category_rules[k].category
              /\ op.input[i].Category # ""

(***************************************************************************)
(* C10: check_missing_rules returns, by first occurrence, one entry for    *)
(* each distinct description that neither contains a rule key nor is       *)
(* contained in one (case-sensitive), and nothing else; Count is the       *)
(* number of rows with the description, Category that of the first one.    *)
(***************************************************************************)
Uncovered(df, rules) ==
    { df[i].Description : i \in 1..Len(df) } \
    { d \in Strs : \E j \in 1..Len(rules) :
          \/ CaseSensitiveSubstring(rules[j].desc, d)
          \/ CaseSensitiveSubstring(d, rules[j].desc) }

FirstPos(df, d) == CHOOSE i \in 1..Len(df) :
    /\ df[i].Description = d
    /\ \A j \in 1..(i - 1) : df[j].Description # d

C10_MissingRules ==
    op.name = "check" =>
        /\ { ret[i].Description : i \in 1..Len(ret) }
              = Uncovered(transactions_df, category_rules)
        /\ \A i, j \in 1..Len(ret) :
              i < j => FirstPos(transactions_df, ret[i].Description)
                          < FirstPos(transactions_df, ret[j].Description)
        /\ \A i \in 1..Len(ret) :
              /\ ret[i].Count = Cardinality({ r \in 1..Len(transactions_df) :
                                    transactions_df[r].Description = ret[i].Description })
              /\ ret[i].Category
                    = transactions_df[FirstPos(transactions_df, ret[i].Description)].Category

\* Two uncovered descriptions are reported beside a rule store that covers
\* neither, one of them differing from a key only in case.
C10_Witness ==
    /\ op.name = "check"
    /\ Len(ret) = 2
    /\ \E i \in 1..Len(ret), j \in 1..Len(category_rules) :
          /\ CaseInsensitiveSubstring(category_rules[j].desc, ret[i].Description)
          /\ ret[i].Category # ""

(***************************************************************************)
(* C11: when download_from_s3 has returned False, the session's            *)
(* transactions, category registry and rule store are what they were       *)
(* before the call.                                                        *)
(***************************************************************************)
C11_FailedDownloadChangesNothing ==
    \A s \in Sessions :
        (/\ sessions[s].pc = "idle"
         /\ sessions[s].last.name = "download"
         /\ ~sessions[s].last.returned)
            => Memory(sessions[s]) = sessions[s].last.before

(***************************************************************************)
(* C13: when download_from_s3 returns True, every rule of the session is   *)
(* in current form with the key and category of the stored member, and     *)
(* what upload_to_s3 would write for it has only current-form members      *)
(* with those keys and categories.                                         *)
(***************************************************************************)
C13_LoadNormalizesLegacyRules ==
    [][\A s \in Sessions :
          (sessions[s].pc = "get_rules" /\ sessions'[s].last = [name |-> "download",
                                                               returned |-> TRUE,
                                                               before |-> sessions[s].last.before])
             => LET stored == s3.category_rules.members
                    loaded == sessions'[s].category_rules
                    written == dumps_rules(loaded).members
                IN /\ Len(loaded) = Len(stored)
                   /\ Len(written) = Len(stored)
                   /\ \A i \in 1..Len(stored) :
                         /\ loaded[i].form = "dict"
                         /\ loaded[i].desc = stored[i].key
                         /\ loaded[i].category = stored[i].category
                         /\ written[i].type = "object"
                         /\ written[i].key = stored[i].key
                         /\ written[i].category = stored[i].category]_vars

(***************************************************************************)
(* C14: the three objects of the store are always, together, what the      *)
(* store held at the start or the snapshot of one call of upload_to_s3.    *)
(***************************************************************************)
C14_NoPartialPersistence == s3 \in uploads

(***************************************************************************)
(* C12: a row of the 'add rules' table or of an 'update rules' batch whose *)
(* category is not empty and not in the registry is rejected: the rule for *)
(* its description is afterwards what it was before (absent if it was      *)
(* absent), and no transaction is given that category by the action.       *)
(***************************************************************************)
InvalidCategoryReference(c) == c # "" /\ c \notin Range(categories)

RuleKept(d) ==
    /\ HasKey(category_rules', d) = HasKey(category_rules, d)
    /\ HasKey(category_rules, d) => Get(category_rules', d) = Get(category_rules, d)

NotAssigned(c) ==
    /\ Len(transactions_df') = Len(transactions_df)
    /\ \A i \in 1..Len(transactions_df) :
          transactions_df'[i].Category = c => transactions_df[i].Category = c

C12_InvalidCategoryRejected ==
    [][(UserStep /\ op'.name \in {"add_rules", "update_rules"}) =>
          \A k \in 1..Len(op'.input) :
              InvalidCategoryReference(op'.input[k].Category) =>
                  /\ RuleKept(op'.input[k].Description)
                  /\ NotAssigned(op'.input[k].Category)]_vars

(***************************************************************************)
(* C15: the session category registry holds no name twice and no empty or  *)
(* whitespace-only name.                                                   *)
(***************************************************************************)
C15_RegistryWellFormed ==
    /\ \A i, j \in 1..Len(categories) : i # j => categories[i] # categories[j]
    /\ \A i \in 1..Len(categories) : Strip(categories[i]) # ""

(***************************************************************************)
(* C16: 'save category changes' removes and adds no rule: the keys of the  *)
(* session rule store and their order stay; a rule whose category is in    *)
(* the deleted set keeps key, form and last_modified and has its category  *)
(* set to empty; every other rule is unchanged.                            *)
(***************************************************************************)
DeletedSet(table) == { table[i].Category : i \in { k \in 1..Len(table) : table[k].Delete } }

C16_CategoryDeletionKeepsRules ==
    [][(UserStep /\ op'.name = "save_categories") =>
          /\ Len(category_rules') = Len(category_rules)
          /\ \A i \in 1..Len(category_rules) :
                IF category_rules[i].category \in DeletedSet(op'.input)
                THEN /\ category_rules'[i].desc = category_rules[i].desc
                     /\ category_rules'[i].form = category_rules[i].form
                     /\ category_rules'[i].last_modified = category_rules[i].last_modified
                     /\ category_rules'[i].category = ""
                ELSE category_rules'[i] = category_rules[i]]_vars

\* A category deletion cleared a rule (the handler's rules_updated is set)
\* beside a rule of a category that was not deleted.
C16_Witness ==
    /\ op.name = "save_categories"
    /\ op.rules_updated
    /\ \E i, j \in 1..Len(category_rules) :
          /\ category_rules[i].category = ""
          /\ category_rules[i].form = "dict"
          /\ category_rules[j].category # ""
          /\ category_rules[j].category \notin DeletedSet(op.input)

(***************************************************************************)
(* C17: right after 'add rules for uncovered descriptions',                *)
(* check_missing_rules on the session's transactions and rule store        *)
(* returns the empty list, and every rule entry that existed before the    *)
(* action is still there, unchanged and at its place.                      *)
(***************************************************************************)
C17_AddRulesCoversAll ==
    [][(UserStep /\ op'.name = "add_rules") =>
          /\ check_missing_rules(transactions_df', category_rules') = << >>
          /\ Len(category_rules') >= Len(category_rules)
          /\ \A i \in 1..Len(category_rules) : category_rules'[i] = category_rules[i]]_vars

\* Rules were added for uncovered descriptions, one of them without a
\* category, beside a rule whose key is none of the descriptions of the
\* table and so was in the store before.
C17_Witness ==
    /\ op.name = "add_rules"
    /\ \E k \in 1..Len(op.input) : op.input[k].Category = ""
    /\ \E j \in 1..Len(category_rules) :
          \A k \in 1..Len(op.input) : category_rules[j].desc # op.input[k].Description

(***************************************************************************)
(* C18: 'save changes' sets the Memo of exactly the transactions whose     *)
(* displayed row the user edited, to the edited text, whatever the         *)
(* filters; every other Memo and every other field stay, and so does the   *)
(* number of rows.                                                         *)
(***************************************************************************)
C18_MemoSaveFrame ==
    [][(UserStep /\ op'.name = "save_memo") =>
          /\ Len(transactions_df') = Len(transactions_df)
          /\ \A i \in 1..Len(transactions_df) :
                /\ transactions_df'[i].Description = transactions_df[i].Description
                /\ transactions_df'[i].Category = transactions_df[i].Category
                /\ \A k \in 1..Len(op'.labels) :
                      op'.labels[k] = i => transactions_df'[i].Memo = op'.input[k].Memo
                /\ (\A k \in 1..Len(op'.labels) : op'.labels[k] # i)
                      => transactions_df'[i].Memo = transactions_df[i].Memo]_vars

(***************************************************************************)
(* C19: whenever the session's authenticated flag is true, user_email is   *)
(* set and is a member of ALLOWED_EMAILS; and the body of main has only    *)
(* run in such a state of the session.                                     *)
(***************************************************************************)
AuthenticatedAsAllowed(ss) ==
    /\ Has(ss, "authenticated")
    /\ ss["authenticated"]
    /\ Has(ss, "user_email")
    /\ ss["user_email"] \in ALLOWED_EMAILS

C19_AuthenticatedImpliesAllowed ==
    /\ (Has(session_state, "authenticated") /\ session_state["authenticated"])
          => AuthenticatedAsAllowed(session_state)
    /\ \A ss \in body_ran : AuthenticatedAsAllowed(ss)

====
